---- MODULE Spec2Model ----
(***************************************************************************)
(* Model of etc/ddex.py: the depth-limited BFS crawl of the DDEX           *)
(* documentation sites (crawl) and the reconciliation of the tag map with  *)
(* the crawl result (main).                                                 *)
(*                                                                         *)
(* Strings are sequences of tokens; a token stands for a run of            *)
(* characters.  The token alphabet is fine enough that every prefix,       *)
(* suffix and substring test of the source falls on token boundaries for   *)
(* the strings enumerated here.                                            *)
(***************************************************************************)
EXTENDS Integers, Sequences, FiniteSets, TLC

\* ------------------------------------------------------------------------
\* Bounds of the model
\* ------------------------------------------------------------------------
\* MAX_DEPTH is 5 and MAX_PAGES is 1000 in the source; the model runs the
\* same loop with the two limits scaled down to these bounds.
DepthBound == 2
PageBound == 3

\* the greatest number of occurrences of a tag in a text handed to score
OccBound == 6

\* ------------------------------------------------------------------------
\* Strings
\* ------------------------------------------------------------------------
WS == " "

StartsWith(s, p) == Len(s) >= Len(p) /\ SubSeq(s, 1, Len(p)) = p

EndsWith(s, p) == Len(s) >= Len(p) /\ SubSeq(s, Len(s) - Len(p) + 1, Len(s)) = p

\* str.lower() on one token
LowerTok(t) ==
  CASE t = "ISRC" -> "isrc"
    [] t = "Foo" -> "foo"
    [] t = "ERN." -> "ern."
    [] t = "DDEX" -> "ddex"
    [] OTHER -> t

Lower(s) == [i \in 1..Len(s) |-> LowerTok(s[i])]

RECURSIVE lstrip(_)
lstrip(s) == IF s # <<>> /\ Head(s) = WS THEN lstrip(Tail(s)) ELSE s

RECURSIVE rstrip(_)
rstrip(s) == IF s # <<>> /\ s[Len(s)] = WS THEN rstrip(SubSeq(s, 1, Len(s) - 1)) ELSE s

\* str.strip()
strip(s) == rstrip(lstrip(s))

\* `needle in hay` for strings: a contiguous run of tokens
Contains(hay, needle) ==
  \E i \in 1..(Len(hay) - Len(needle) + 1) : SubSeq(hay, i, i + Len(needle) - 1) = needle

\* ------------------------------------------------------------------------
\* URLs
\* ------------------------------------------------------------------------
Schemes == {"https://", "http://"}

\* tokens that end the network location of a URL
IsPathStart(t) == t \in {"/", "#frag"}

\* a host urlparse rejects (urllib raises ValueError: Invalid IPv6 URL)
BadHost == "[bad"

HasScheme(u) == u # <<>> /\ Head(u) \in Schemes

\* index of the first token after the network location
NetlocEnd(u) ==
  IF \E i \in 2..Len(u) : IsPathStart(u[i])
  THEN CHOOSE i \in 2..Len(u) : IsPathStart(u[i]) /\ \A j \in 2..(i - 1) : ~IsPathStart(u[j])
  ELSE Len(u) + 1

\* urllib.parse.urlparse(url).netloc
netloc(u) == IF HasScheme(u) THEN SubSeq(u, 2, NetlocEnd(u) - 1) ELSE <<>>

\* urlparse raises on this URL
ParseFails(u) == HasScheme(u) /\ \E i \in 1..Len(netloc(u)) : netloc(u)[i] = BadHost

SEEDS ==
  << <<"https://", "ern.", "ddex", ".net", "/">>,
     <<"https://", "service.", "ddex", ".net", "/", "dd/ERN38/">>,
     <<"https://", "ddex", ".net", "/", "standards/">> >>

ALLOWED_DOMAINS ==
  << <<"ern.", "ddex", ".net">>, <<"service.", "ddex", ".net">>, <<"ddex", ".net">> >>

MAX_PAGES == PageBound

MAX_DEPTH == DepthBound

\* DOMAIN_PRIORITY.get(d, 0)
DOMAIN_PRIORITY(d) ==
  CASE d = <<"ern.", "ddex", ".net">> -> 3
    [] d = <<"service.", "ddex", ".net">> -> 2
    [] d = <<"ddex", ".net">> -> 1
    [] OTHER -> 0

\* the scheme is tested in place of the host
same_domainAnyHost(url) == HasScheme(url) /\ ~ParseFails(url)

same_domain(url) ==
  IF ParseFails(url) THEN FALSE
  ELSE \E i \in 1..Len(ALLOWED_DOMAINS) : EndsWith(Lower(netloc(url)), ALLOWED_DOMAINS[i])

\* urllib.parse.urljoin for the href shapes of the model: absolute, empty,
\* root-relative ("/...") and fragment-only ("#...")
urljoin(base, href) ==
  IF href = <<>> THEN base
  ELSE IF HasScheme(href) THEN href
  ELSE IF Head(href) = "/" THEN SubSeq(base, 1, NetlocEnd(base) - 1) \o href
  ELSE base \o href

\* urllib.parse.urldefrag(u)[0]
urldefrag(u) ==
  IF \E i \in 1..Len(u) : u[i] = "#frag"
  THEN SubSeq(u, 1, (CHOOSE i \in 1..Len(u) : u[i] = "#frag" /\ \A j \in 1..(i - 1) : u[j] # "#frag") - 1)
  ELSE u

normalize_url(base, href) ==
  IF ParseFails(href) THEN <<>> ELSE urldefrag(urljoin(base, href))

\* ------------------------------------------------------------------------
\* HTTP
\* ------------------------------------------------------------------------
\* what the network answers to one request: a transport exception, or a
\* status with a content type and a body
Raised == [exc |-> TRUE, status |-> 0, ctype |-> "", text |-> <<>>]

Answer(st, ct, body) == [exc |-> FALSE, status |-> st, ctype |-> ct, text |-> body]

\* str | None
None == [some |-> FALSE, text |-> <<>>]

Some(t) == [some |-> TRUE, text |-> t]

\* Python truthiness of a str | None
Truthy(h) == h.some /\ h.text # <<>>

Req(m, u) == [method |-> m, url |-> u]

fetch(url, r) ==
  IF r.exc THEN None
  ELSE IF r.status = 200 /\ r.ctype = "text/html" THEN Some(r.text)
  ELSE None

\* the fallback for 405 left out
check_url_aliveNoFallback(url, head, get) ==
  IF url = <<>> \/ ~(Head(url) \in Schemes) THEN [alive |-> FALSE, reqs |-> <<>>]
  ELSE IF head.exc THEN [alive |-> FALSE, reqs |-> <<Req("HEAD", url)>>]
  ELSE IF head.status \in {200, 301, 302} THEN [alive |-> TRUE, reqs |-> <<Req("HEAD", url)>>]
  ELSE [alive |-> FALSE, reqs |-> <<Req("HEAD", url)>>]

\* the result of check_url_alive and the requests it issued; head and get
\* are the answers of the network to the HEAD and to the fallback GET
check_url_alive(url, head, get) ==
  IF url = <<>> \/ ~(Head(url) \in Schemes) THEN [alive |-> FALSE, reqs |-> <<>>]
  ELSE IF head.exc THEN [alive |-> FALSE, reqs |-> <<Req("HEAD", url)>>]
  ELSE IF head.status \in {200, 301, 302} THEN [alive |-> TRUE, reqs |-> <<Req("HEAD", url)>>]
  ELSE IF head.status = 405
       THEN [alive |-> ~get.exc /\ get.status = 200,
             reqs |-> <<Req("HEAD", url), Req("GET", url)>>]
  ELSE [alive |-> FALSE, reqs |-> <<Req("HEAD", url)>>]

\* ------------------------------------------------------------------------
\* HTML
\* ------------------------------------------------------------------------
\* A document is the sequence of its elements; the empty document is the
\* empty string.  Text fragments are sequences of words and are shorter
\* than the 300 characters extract_links keeps of each.
Anchor(h) == [el |-> "a", href |-> h, txt |-> <<>>]

Para(t) == [el |-> "p", href |-> <<>>, txt |-> t]

Div == [el |-> "div", href |-> <<>>, txt |-> <<>>]

\* the domain test left out: every link that normalizes is kept
RECURSIVE LinksOfUnfiltered(_, _)
LinksOfUnfiltered(base_url, html) ==
  IF html = <<>> THEN <<>>
  ELSE LET e == Head(html)
           u == normalize_url(base_url, e.href)
       IN  (IF e.el = "a" /\ u # <<>> THEN <<u>> ELSE <<>>)
             \o LinksOfUnfiltered(base_url, Tail(html))

RECURSIVE LinksOf(_, _)
LinksOf(base_url, html) ==
  IF html = <<>> THEN <<>>
  ELSE LET e == Head(html)
           u == normalize_url(base_url, e.href)
       IN  (IF e.el = "a" /\ u # <<>> /\ same_domain(u) THEN <<u>> ELSE <<>>)
             \o LinksOf(base_url, Tail(html))

RECURSIVE TextOf(_)
TextOf(html) ==
  IF html = <<>> THEN <<>>
  ELSE LET e == Head(html)
       IN  (IF e.el = "p" /\ e.txt # <<>> THEN e.txt ELSE <<>>) \o TextOf(Tail(html))

extract_links(base_url, html) == [links |-> LinksOf(base_url, html), text |-> TextOf(html)]

\* len(re.findall(r"\btag\b", text)) for a tag made of word characters
RECURSIVE Occurrences(_, _)
Occurrences(tag, text) ==
  IF text = <<>> THEN 0
  ELSE (IF Head(text) = tag THEN 1 ELSE 0) + Occurrences(tag, Tail(text))

Min(a, b) == IF a < b THEN a ELSE b

\* the cap of five occurrences left out
scoreUncapped(url, text, tag) ==
  DOMAIN_PRIORITY(Lower(netloc(url))) * 100
    + (IF Contains(Lower(url), <<LowerTok(tag)>>) THEN 20 ELSE 0)
    + Occurrences(tag, text) * 10

score(url, text, tag) ==
  DOMAIN_PRIORITY(Lower(netloc(url))) * 100
    + (IF Contains(Lower(url), <<LowerTok(tag)>>) THEN 20 ELSE 0)
    + Min(Occurrences(tag, text), 5) * 10

\* ------------------------------------------------------------------------
\* The environment: tag maps read from the input file, pages of the web
\* ------------------------------------------------------------------------
PLACEHOLDER_PREFIX == <<"https://", "ddex", ".net", "/", "docs/">>

Str(s) == [isstr |-> TRUE, s |-> s]

\* a JSON value that is not a string (null, a number, a list)
NotStr == [isstr |-> FALSE, s |-> <<>>]

UrlIsrcDoc == PLACEHOLDER_PREFIX \o <<"isrc">>

UrlWorking == <<"https://", "example.com", "/", "working">>

UrlErnIsrc == <<"https://", "ern.", "ddex", ".net", "/", "isrc">>

UrlEvil == <<"https://", "evil", "ddex", ".net", "/">>

UrlOutside == <<"https://", "example.com", "/">>

UrlBad == <<"https://", BadHost, "/">>

\* values of the tag of a map with one tag
Values ==
  { Str(<<>>), Str(<<WS>>), NotStr,
    Str(UrlIsrcDoc), Str(<<WS>> \o UrlIsrcDoc \o <<WS>>),
    Str(UrlWorking), Str(<<WS>> \o UrlWorking),
    Str(<<"n/a">>) }

\* values of the two tags of a map with two tags
ValuePairs ==
  { <<Str(UrlIsrcDoc), Str(UrlWorking \o <<WS>>)>>,
    <<NotStr, Str(UrlIsrcDoc)>>,
    <<Str(UrlWorking), NotStr>> }

\* the key lists of the input maps, in file order
TagLists == { <<>>, <<"ISRC">>, <<"Foo", "ISRC">> }

Range(q) == {q[i] : i \in 1..Len(q)}

\* the input maps with the key list ks
InputMaps(ks) ==
  IF Len(ks) = 2
  THEN {[k \in Range(ks) |-> IF k = ks[1] THEN p[1] ELSE p[2]] : p \in ValuePairs}
  ELSE [Range(ks) -> Values]

EmptyMap == [x \in {} |-> <<>>]

\* the documents the web serves
Page1 ==
  << Para(<<"ISRC">>), Anchor(UrlErnIsrc \o <<"#frag">>), Anchor(<<"/", "docs/", "isrc">>),
     Anchor(UrlOutside), Anchor(<<>>) >>

Page2 ==
  << Anchor(SEEDS[1]), Para(<<"ISRC", "ISRC">>), Div, Anchor(UrlEvil), Para(<<"Foo">>),
     Anchor(UrlBad), Anchor(<<"#frag">>) >>

Page3 == << Div >>

Bodies == { <<>>, Page1, Page2, Page3 }

FetchAnswers ==
  { Raised, Answer(404, "text/html", Page1), Answer(200, "application/pdf", Page1) }
    \cup { Answer(200, "text/html", b) : b \in Bodies }

HeadAnswers == { Raised } \cup { Answer(st, "", <<>>) : st \in {200, 301, 302, 404, 405} }

GetAnswers == { Raised } \cup { Answer(st, "", <<>>) : st \in {200, 301, 404} }

\* ------------------------------------------------------------------------
\* State
\* ------------------------------------------------------------------------
VARIABLES
  pc,            \* "crawl", "reconcile" or "done": position in main
  data,          \* the input map
  tags,          \* list(data.keys())
  visited,       \* crawl: set of URLs
  queue,         \* crawl: sequence of [url, depth]
  pages,         \* crawl: page counter
  html,          \* crawl: what the last fetch returned
  best_for_tag,  \* crawl: tag -> [score, url]
  scraped,       \* main: the mapping crawl returned
  idx,           \* main: position of the reconciliation loop in tags
  updated,       \* main: the output map
  requests,      \* history: every request issued, in order
  dequeued,      \* history: every frontier entry popped, in order
  processed,     \* history: every page processed, in order
  checks,        \* history: tag -> the URL check_url_alive got and its answer
  sleeps,        \* history: number of calls of time.sleep
  args,          \* a direct call of a function: its arguments
  result         \* a direct call of a function: what it returned

vars ==
  <<pc, data, tags, visited, queue, pages, html, best_for_tag, scraped, idx, updated,
    requests, dequeued, processed, checks, sleeps, args, result>>

\* no direct call
NoArgs == [fn |-> "", url |-> <<>>, head |-> Raised, get |-> Raised, text |-> <<>>, tag |-> ""]

NoResult == [done |-> FALSE, alive |-> FALSE, reqs |-> <<>>, score |-> 0]

\* dict.fromkeys(q): the first occurrence of each element, in order
RECURSIVE Unique(_)
Unique(q) ==
  IF q = <<>> THEN <<>>
  ELSE LET r == Unique(SubSeq(q, 1, Len(q) - 1))
       IN  IF q[Len(q)] \in Range(r) THEN r ELSE Append(r, q[Len(q)])

Entry(u, d) == [url |-> u, depth |-> d]

Init ==
  /\ pc = "crawl"
  /\ tags \in TagLists
  /\ data \in InputMaps(tags)
  /\ visited = {}
  /\ queue = [i \in 1..Len(Unique(SEEDS)) |-> Entry(Unique(SEEDS)[i], 0)]
  /\ pages = 0
  /\ html = None
  /\ best_for_tag = EmptyMap
  /\ scraped = EmptyMap
  /\ idx = 1
  /\ updated = EmptyMap
  /\ requests = <<>>
  /\ dequeued = <<>>
  /\ processed = <<>>
  /\ checks = EmptyMap
  /\ sleeps = 0
  /\ args = NoArgs
  /\ result = NoResult

\* ------------------------------------------------------------------------
\* crawl
\* ------------------------------------------------------------------------
\* the cap tested with <= : one page more than MAX_PAGES
LoopingOneMore == queue # <<>> /\ pages <= MAX_PAGES

\* the condition of the while loop
Looping == queue # <<>> /\ pages < MAX_PAGES

\* the table is rebuilt from the tags of the current page only
ScoredThisPage(best, url, text) ==
  LET hit == {t \in Range(tags) : Occurrences(t, text) > 0}
  IN  [t \in hit |-> [score |-> score(url, text, t), url |-> url]]

\* the comparison is >= : a later page with an equal score replaces the entry
ScoredTiesReplace(best, url, text) ==
  LET hit == {t \in Range(tags) : Occurrences(t, text) > 0}
  IN  [t \in (DOMAIN best) \cup hit |->
         IF t \in hit /\ (t \notin DOMAIN best \/ score(url, text, t) >= best[t].score)
         THEN [score |-> score(url, text, t), url |-> url]
         ELSE best[t]]

\* the scoring loop over the tags for one page
Scored(best, url, text) ==
  LET hit == {t \in Range(tags) : Occurrences(t, text) > 0}
  IN  [t \in (DOMAIN best) \cup hit |->
         IF t \in hit /\ (t \notin DOMAIN best \/ score(url, text, t) > best[t].score)
         THEN [score |-> score(url, text, t), url |-> url]
         ELSE best[t]]

\* the entries the enqueue loop appends for the links of one page
\* the children are given the depth of their parent
RECURSIVE ChildrenSameDepth(_, _, _)
ChildrenSameDepth(links, seen, depth) ==
  IF links = <<>> THEN <<>>
  ELSE (IF Head(links) \notin seen THEN <<Entry(Head(links), depth)>> ELSE <<>>)
         \o ChildrenSameDepth(Tail(links), seen, depth)

RECURSIVE Children(_, _, _)
Children(links, seen, depth) ==
  IF links = <<>> THEN <<>>
  ELSE (IF Head(links) \notin seen THEN <<Entry(Head(links), depth + 1)>> ELSE <<>>)
         \o Children(Tail(links), seen, depth)

\* the depth limit tested with <= : one level too deep
EnqueuedTooDeep(links, seen, depth) ==
  IF depth <= MAX_DEPTH THEN Children(links, seen, depth) ELSE <<>>

\* what one page adds to the queue: nothing at the depth limit
Enqueued(links, seen, depth) ==
  IF depth < MAX_DEPTH THEN Children(links, seen, depth) ELSE <<>>

\* appendleft in place of append
PushedFront(q, entries) == entries \o q

\* queue.append for each of the entries, in order
Pushed(q, entries) == q \o entries

\* pages += 1 placed before the test of html
CountedAlways(n, h) == n + 1

\* the page counter after the test of html: a page that is skipped is not
\* counted
Counted(n, h) == IF Truthy(h) THEN n + 1 ELSE n

\* visited.add left out
MarkedNothing(seen, url) == seen

\* visited.add(url)
Marked(seen, url) == seen \cup {url}

\* an iteration that discards its entry
CrawlSkip ==
  /\ pc = "crawl" /\ Looping
  /\ Head(queue).url \in visited \/ ~same_domain(Head(queue).url)
  /\ queue' = Tail(queue)
  /\ dequeued' = Append(dequeued, Head(queue))
  /\ UNCHANGED <<pc, data, tags, visited, pages, html, best_for_tag, scraped, idx, updated,
                 requests, processed, checks, sleeps, args, result>>

\* an iteration whose fetch gives nothing usable
CrawlFetchFail ==
  /\ pc = "crawl" /\ Looping
  /\ Head(queue).url \notin visited /\ same_domain(Head(queue).url)
  /\ \E r \in FetchAnswers :
       /\ html' = fetch(Head(queue).url, r)
       /\ ~Truthy(html')
       /\ pages' = Counted(pages, html')
       /\ queue' = Tail(queue)
       /\ visited' = Marked(visited, Head(queue).url)
       /\ requests' = Append(requests, Req("GET", Head(queue).url))
       /\ dequeued' = Append(dequeued, Head(queue))
  /\ UNCHANGED <<pc, data, tags, best_for_tag, scraped, idx, updated,
                 processed, checks, sleeps, args, result>>

\* an iteration that processes a page
CrawlProcess ==
  /\ pc = "crawl" /\ Looping
  /\ Head(queue).url \notin visited /\ same_domain(Head(queue).url)
  /\ \E r \in FetchAnswers :
       LET url == Head(queue).url
           depth == Head(queue).depth
           x == extract_links(url, fetch(url, r).text)
       IN  /\ html' = fetch(url, r)
           /\ Truthy(html')
           /\ visited' = Marked(visited, url)
           /\ pages' = Counted(pages, html')
           /\ best_for_tag' = Scored(best_for_tag, url, x.text)
           /\ queue' = Pushed(Tail(queue), Enqueued(x.links, visited', depth))
           /\ requests' = Append(requests, Req("GET", url))
           /\ dequeued' = Append(dequeued, Head(queue))
           /\ processed' = Append(processed, [url |-> url, depth |-> depth, text |-> x.text, links |-> x.links])
           /\ sleeps' = sleeps + 1
  /\ UNCHANGED <<pc, data, tags, scraped, idx, updated, checks, args, result>>

\* the table is dropped when the loop stopped at the page cap
ReturnedUnlessCapped(best) ==
  IF pages >= MAX_PAGES THEN EmptyMap ELSE [t \in DOMAIN best |-> best[t].url]

\* {t: u for t, (_, u) in best_for_tag.items()}
Returned(best) == [t \in DOMAIN best |-> best[t].url]

\* the loop ends and crawl returns
CrawlReturn ==
  /\ pc = "crawl" /\ ~Looping
  /\ scraped' = Returned(best_for_tag)
  /\ pc' = "reconcile"
  /\ UNCHANGED <<data, tags, visited, queue, pages, html, best_for_tag, idx, updated,
                 requests, dequeued, processed, checks, sleeps, args, result>>

\* ------------------------------------------------------------------------
\* main: reconciliation
\* ------------------------------------------------------------------------
\* old of one input value
Old(v) == IF v.isstr THEN strip(v.s) ELSE <<>>

\* the placeholder test left out: every candidate is substituted
SubstitutedAnyValue(k, old) ==
  IF k \in DOMAIN scraped /\ scraped[k] # <<>> THEN scraped[k] ELSE old

\* the substitution left out: the candidate is never used
SubstitutedNever(k, old) == old

\* final_url before validation
Substituted(k, old) ==
  IF StartsWith(old, PLACEHOLDER_PREFIX) /\ k \in DOMAIN scraped /\ scraped[k] # <<>>
  THEN scraped[k]
  ELSE old

\* the test inverted: a live URL is cleared, a dead one kept
ValidatedInverted(final_url, alive) == IF alive THEN <<>> ELSE final_url

\* the answer of the liveness check ignored
ValidatedUnchecked(final_url, alive) == final_url

\* final_url after validation
Validated(final_url, alive) == IF alive THEN final_url ELSE <<>>

\* an entry with an empty value is left out of the output
RecordedNonEmpty(upd, k, final_url) == IF final_url = <<>> THEN upd ELSE (k :> final_url) @@ upd

\* updated[k] = final_url
Recorded(upd, k, final_url) == (k :> final_url) @@ upd

\* one iteration of the loop over data.items()
Reconcile ==
  /\ pc = "reconcile" /\ idx <= Len(tags)
  /\ \E head \in HeadAnswers, get \in GetAnswers :
       LET k == tags[idx]
           final_url == Substituted(k, Old(data[k]))
           c == check_url_alive(final_url, head, get)
       IN  IF final_url # <<>>
           THEN /\ requests' = requests \o c.reqs
                /\ checks' = (k :> [url |-> final_url, alive |-> c.alive]) @@ checks
                /\ updated' = Recorded(updated, k, Validated(final_url, c.alive))
           ELSE /\ updated' = Recorded(updated, k, final_url)
                /\ UNCHANGED <<requests, checks>>
  /\ idx' = idx + 1
  /\ UNCHANGED <<pc, data, tags, visited, queue, pages, html, best_for_tag, scraped,
                 dequeued, processed, sleeps, args, result>>

\* the output map is written
WriteOut ==
  /\ pc = "reconcile" /\ idx > Len(tags)
  /\ pc' = "done"
  /\ UNCHANGED <<data, tags, visited, queue, pages, html, best_for_tag, scraped, idx, updated,
                 requests, dequeued, processed, checks, sleeps, args, result>>

Next == CrawlSkip \/ CrawlFetchFail \/ CrawlProcess \/ CrawlReturn \/ Reconcile \/ WriteOut

Spec == Init /\ [][Next]_vars

\* the program is one sequential thread and every request has a timeout
FairSpec == Spec /\ WF_vars(Next)

\* ------------------------------------------------------------------------
\* Direct calls of check_url_alive and score
\* ------------------------------------------------------------------------
UrlFtp == <<"ftp://", "ddex", ".net", "/">>

UrlUpper == <<"https://", "ERN.", "DDEX", ".net", "/", "ISRC">>

UrlErnFoo == <<"https://", "ern.", "ddex", ".net", "/", "foo">>

AliveUrls == { <<>>, <<"n/a">>, UrlFtp, UrlWorking, UrlIsrcDoc }

ScoreUrls == { SEEDS[1], SEEDS[2], SEEDS[3], UrlErnIsrc, UrlErnFoo, UrlEvil, UrlUpper, UrlWorking }

\* n times the word w
Times(w, n) == [i \in 1..n |-> w]

\* texts with 0..OccBound occurrences of ISRC, one of isrc and at most one of Foo
ScoreTexts ==
  { Times("ISRC", n) : n \in 0..OccBound }
    \cup { <<"isrc", "Foo">> \o Times("ISRC", n) : n \in 0..OccBound }

AliveArgs ==
  { [fn |-> "check_url_alive", url |-> u, head |-> h, get |-> g, text |-> <<>>, tag |-> ""] :
      u \in AliveUrls, h \in HeadAnswers, g \in GetAnswers }

ScoreArgs ==
  { [fn |-> "score", url |-> u, head |-> Raised, get |-> Raised, text |-> x, tag |-> t] :
      u \in ScoreUrls, x \in ScoreTexts, t \in {"ISRC", "Foo"} }

CallInit ==
  /\ pc = "call"
  /\ args \in AliveArgs \cup ScoreArgs
  /\ result = NoResult
  /\ tags = (IF args.fn = "score" THEN <<args.tag>> ELSE <<>>)
  /\ data = EmptyMap
  /\ visited = {}
  /\ queue = <<>>
  /\ pages = 0
  /\ html = None
  /\ best_for_tag = EmptyMap
  /\ scraped = EmptyMap
  /\ idx = 1
  /\ updated = EmptyMap
  /\ requests = <<>>
  /\ dequeued = <<>>
  /\ processed = <<>>
  /\ checks = EmptyMap
  /\ sleeps = 0

\* check_url_alive(url) with the network answering head and get
CallCheckUrlAlive ==
  /\ pc = "call" /\ args.fn = "check_url_alive" /\ ~result.done
  /\ LET c == check_url_alive(args.url, args.head, args.get)
     IN  /\ result' = [done |-> TRUE, alive |-> c.alive, reqs |-> c.reqs, score |-> 0]
         /\ requests' = requests \o c.reqs
  /\ UNCHANGED <<pc, data, tags, visited, queue, pages, html, best_for_tag, scraped, idx,
                 updated, dequeued, processed, checks, sleeps, args>>

\* score(url, text, tag), and the scoring loop of crawl on that page with an
\* empty table
CallScore ==
  /\ pc = "call" /\ args.fn = "score" /\ ~result.done
  /\ result' = [done |-> TRUE, alive |-> FALSE, reqs |-> <<>>,
                score |-> score(args.url, args.text, args.tag)]
  /\ best_for_tag' = Scored(best_for_tag, args.url, args.text)
  /\ UNCHANGED <<pc, data, tags, visited, queue, pages, html, scraped, idx, updated,
                 requests, dequeued, processed, checks, sleeps, args>>

CallNext == CallCheckUrlAlive \/ CallScore

CallSpec == CallInit /\ [][CallNext]_vars

\* ------------------------------------------------------------------------
\* Properties of reconciliation
\* ------------------------------------------------------------------------
IsPlaceholder(old) == StartsWith(old, PLACEHOLDER_PREFIX)

\* C1: a tag whose stripped input value is non-empty and not a placeholder
\* gets that value when check_url_alive answered true for it and the empty
\* string when it answered false, whatever the crawl returned for the tag.
C1_NonPlaceholderKept ==
  \A k \in DOMAIN updated :
    LET old == Old(data[k])
    IN  (old # <<>> /\ ~IsPlaceholder(old)) =>
          /\ k \in DOMAIN checks
          /\ checks[k].url = old
          /\ updated[k] = (IF checks[k].alive THEN old ELSE <<>>)

\* a value with surrounding whitespace, not a placeholder, is kept stripped
\* although the crawl returned another URL for its tag
C1_Witness ==
  \E k \in DOMAIN updated :
    /\ Old(data[k]) # <<>> /\ ~IsPlaceholder(Old(data[k]))
    /\ data[k].s # Old(data[k])
    /\ k \in DOMAIN scraped /\ scraped[k] # Old(data[k])
    /\ updated[k] = Old(data[k])

\* C2: the output map written has exactly the keys of the input map.
C2_SameKeys == pc = "done" => DOMAIN updated = DOMAIN data

\* a map of two tags is written, one value is not a string and the crawl
\* found nothing for one tag
C2_Witness ==
  /\ pc = "done"
  /\ Cardinality(DOMAIN data) = 2
  /\ \E k \in DOMAIN data : ~data[k].isstr
  /\ \E k \in DOMAIN data : k \notin DOMAIN scraped

\* C3 as stated: for a placeholder with a crawl candidate the liveness check
\* is applied to the candidate, the output is the candidate if it is alive
\* and empty otherwise, and the placeholder is never written.
C3_PlaceholderNeverWritten ==
  \A k \in DOMAIN updated :
    LET old == Old(data[k])
    IN  (IsPlaceholder(old) /\ k \in DOMAIN scraped) =>
          /\ checks[k].url = scraped[k]
          /\ updated[k] = (IF checks[k].alive THEN scraped[k] ELSE <<>>)
          /\ updated[k] # old

\* C3 amended: for a placeholder with a crawl candidate the liveness check is
\* applied to the candidate and the output is the candidate if it is alive
\* and empty otherwise; the placeholder is written only when the candidate
\* is the placeholder URL itself.
C3_CandidateSubstituted ==
  \A k \in DOMAIN updated :
    LET old == Old(data[k])
    IN  (IsPlaceholder(old) /\ k \in DOMAIN scraped) =>
          /\ k \in DOMAIN checks
          /\ checks[k].url = scraped[k]
          /\ updated[k] = (IF checks[k].alive THEN scraped[k] ELSE <<>>)
          /\ (updated[k] = old => scraped[k] = old)

\* a placeholder was replaced by a live candidate that differs from it
C3_Witness ==
  \E k \in DOMAIN updated :
    /\ IsPlaceholder(Old(data[k]))
    /\ k \in DOMAIN scraped /\ scraped[k] # Old(data[k])
    /\ updated[k] = scraped[k]

\* C4 as stated: a placeholder for which the crawl recorded no candidate
\* gets the empty string, whatever the liveness check answers.
C4_PlaceholderCleared ==
  \A k \in DOMAIN updated :
    (IsPlaceholder(Old(data[k])) /\ k \notin DOMAIN scraped) => updated[k] = <<>>

\* C4 amended: a placeholder for which the crawl recorded no candidate is
\* itself checked; the output is the stripped placeholder when
\* check_url_alive answers true and the empty string when it answers false.
C4_PlaceholderChecked ==
  \A k \in DOMAIN updated :
    LET old == Old(data[k])
    IN  (IsPlaceholder(old) /\ k \notin DOMAIN scraped) =>
          /\ k \in DOMAIN checks
          /\ checks[k].url = old
          /\ updated[k] = (IF checks[k].alive THEN old ELSE <<>>)

\* a placeholder without candidate answered the liveness check and was kept
C4_Witness ==
  \E k \in DOMAIN updated :
    /\ IsPlaceholder(Old(data[k])) /\ k \notin DOMAIN scraped
    /\ checks[k].alive /\ updated[k] = Old(data[k])

\* C5: an output value is empty only if the value after substitution was
\* empty or check_url_alive answered false for it; a non-empty output value
\* is the URL check_url_alive was called with, answered true, and a HEAD
\* request for it was issued.
C5_EmptyOnlyIfDead ==
  \A k \in DOMAIN updated :
    LET final_url == Substituted(k, Old(data[k]))
    IN  /\ updated[k] = <<>> =>
             \/ final_url = <<>>
             \/ k \in DOMAIN checks /\ checks[k].url = final_url /\ ~checks[k].alive
        /\ updated[k] # <<>> =>
             /\ k \in DOMAIN checks /\ checks[k].url = updated[k] /\ checks[k].alive
             /\ Req("HEAD", updated[k]) \in Range(requests)

\* one value was cleared because it was dead and another was kept alive
C5_Witness ==
  /\ \E k \in DOMAIN updated :
       /\ updated[k] = <<>> /\ Substituted(k, Old(data[k])) # <<>>
       /\ ~checks[k].alive
  /\ \E k \in DOMAIN updated : updated[k] # <<>> /\ checks[k].alive

\* ------------------------------------------------------------------------
\* Properties of the crawl
\* ------------------------------------------------------------------------
Depths(q) == [i \in 1..Len(q) |-> q[i].depth]

NonDecreasing(q) == \A i \in 1..(Len(q) - 1) : q[i] <= q[i + 1]

\* C6: every frontier entry, every entry popped and every page processed has
\* a depth in 0..MAX_DEPTH, so nothing is fetched deeper than MAX_DEPTH and
\* the links of a page at depth MAX_DEPTH are not enqueued.
C6_DepthBounded ==
  /\ \A i \in 1..Len(queue) : queue[i].depth \in 0..MAX_DEPTH
  /\ \A i \in 1..Len(dequeued) : dequeued[i].depth \in 0..MAX_DEPTH
  /\ \A i \in 1..Len(processed) : processed[i].depth \in 0..MAX_DEPTH

\* a page was processed at depth MAX_DEPTH and one of its links, not seen
\* before, was neither enqueued nor fetched
C6_Witness ==
  \E i \in 1..Len(processed) :
    /\ processed[i].depth = MAX_DEPTH
    /\ \E j \in 1..Len(processed[i].links) :
         /\ processed[i].links[j] \notin visited
         /\ \A n \in 1..Len(queue) : queue[n].url # processed[i].links[j]

\* C7: entries are popped in non-decreasing order of depth, and the queue
\* never holds an entry of smaller depth behind one of larger depth or
\* behind the depth of an entry already popped.
C7_BfsOrder ==
  /\ NonDecreasing(Depths(dequeued))
  /\ NonDecreasing(Depths(queue))
  /\ (dequeued # <<>> /\ queue # <<>>) => dequeued[Len(dequeued)].depth <= Head(queue).depth

\* entries of three different depths were popped
C7_Witness ==
  \E i, j, n \in 1..Len(dequeued) :
    i < j /\ j < n /\ dequeued[i].depth < dequeued[j].depth /\ dequeued[j].depth < dequeued[n].depth

\* C8: the loop of crawl eventually exits, and the mapping returned holds
\* the URL of every entry of the best-score table.
C8_CrawlTerminates ==
  <>(/\ pc # "crawl"
     /\ queue = <<>> \/ pages >= MAX_PAGES
     /\ \A t \in DOMAIN best_for_tag : t \in DOMAIN scraped /\ scraped[t] = best_for_tag[t].url)

\* crawl returned with an empty queue after processing a page that links
\* to itself, with an entry in the table
C8_Witness ==
  /\ pc # "crawl" /\ queue = <<>> /\ pages < MAX_PAGES
  /\ DOMAIN best_for_tag # {}
  /\ \E i \in 1..Len(processed) : processed[i].url \in Range(processed[i].links)

\* the tags that are a word of the text of some processed page
Matched == {t \in Range(tags) : \E i \in 1..Len(processed) : t \in Range(processed[i].text)}

\* C9: the tags of the table, and of the mapping crawl returns, are exactly
\* the tags that occur as a word in the text of some processed page.
C9_FoundIffMatched ==
  /\ DOMAIN best_for_tag = Matched
  /\ pc # "crawl" => DOMAIN scraped = Matched

\* a tag matched a page, a later page did not contain it, the tag is
\* returned and another tag that matched nowhere is not
C9_Witness ==
  /\ pc # "crawl"
  /\ \E t \in DOMAIN scraped : \E i, j \in 1..Len(processed) :
       i < j /\ t \in Range(processed[i].text) /\ t \notin Range(processed[j].text)
  /\ \E t \in Range(tags) : t \notin DOMAIN scraped

\* the host of the URL ends with one of the allowed domains
OnAllowList(u) ==
  \E i \in 1..Len(ALLOWED_DOMAINS) : EndsWith(Lower(netloc(u)), ALLOWED_DOMAINS[i])

\* C10 as stated: every request goes to a host on the allow-list.
C10_AllowListOnly == \A i \in 1..Len(requests) : OnAllowList(requests[i].url)

\* C10 amended: every request of the crawl goes to a host on the allow-list;
\* a request to another host is a liveness probe of a tag's own stripped
\* input value.
C10_OnlyInputsOffList ==
  /\ pc = "crawl" => \A i \in 1..Len(requests) : OnAllowList(requests[i].url)
  /\ \A i \in 1..Len(requests) :
       \/ OnAllowList(requests[i].url)
       \/ \E k \in DOMAIN checks :
            checks[k].url = requests[i].url /\ requests[i].url = Old(data[k])

\* a page linking to a host off the allow-list was processed, a candidate
\* was probed, and an input value on another host was probed
C10_Witness ==
  /\ \E i \in 1..Len(requests) : ~OnAllowList(requests[i].url)
  /\ \E k \in DOMAIN checks : k \in DOMAIN scraped /\ checks[k].url = scraped[k]
  /\ \E i \in 1..Len(processed) : processed[i].text = TextOf(Page1)

\* ------------------------------------------------------------------------
\* Reconciliation of a resolved map
\* ------------------------------------------------------------------------
\* every value of the input is a stripped, non-empty string that is not a
\* placeholder and check_url_alive answered true for it
ResolvedInput ==
  \A k \in DOMAIN data :
    /\ data[k].isstr /\ data[k].s # <<>> /\ strip(data[k].s) = data[k].s
    /\ ~IsPlaceholder(data[k].s)
    /\ k \in DOMAIN checks /\ checks[k].alive

\* C11: for a resolved input the map written equals the input map whatever
\* the crawl returned, and reconciling the values written once more, with
\* the liveness check answering true again, gives the same values.
C11_ResolvedMapUnchanged ==
  (pc = "done" /\ ResolvedInput) =>
    /\ DOMAIN updated = DOMAIN data
    /\ \A k \in DOMAIN data :
         /\ updated[k] = data[k].s
         /\ Validated(Substituted(k, Old(Str(updated[k]))), TRUE) = updated[k]

\* a resolved map was written unchanged although the crawl returned another
\* URL for its tag
C11_Witness ==
  /\ pc = "done" /\ ResolvedInput /\ DOMAIN data # {}
  /\ \E k \in DOMAIN data : k \in DOMAIN scraped /\ scraped[k] # data[k].s
  /\ \A k \in DOMAIN data : updated[k] = data[k].s

\* ------------------------------------------------------------------------
\* The best-score table
\* ------------------------------------------------------------------------
\* the processed pages whose text has the tag as a word
HitsOf(t) == {i \in 1..Len(processed) : t \in Range(processed[i].text)}

\* the score of the tag on the i-th processed page
ScoreAt(i, t) == score(processed[i].url, processed[i].text, t)

\* the pages of HitsOf(t) with the greatest score
TopOf(t) == {i \in HitsOf(t) : \A j \in HitsOf(t) : ScoreAt(j, t) <= ScoreAt(i, t)}

\* C12: for every tag of the table the stored score is the greatest score
\* of the tag over the processed pages that contain it, and the stored URL
\* is the earliest processed page with that score.
C12_BestIsFirstMaximum ==
  \A t \in DOMAIN best_for_tag :
    /\ HitsOf(t) # {}
    /\ \E i \in TopOf(t) :
         /\ \A j \in TopOf(t) : i <= j
         /\ best_for_tag[t].score = ScoreAt(i, t)
         /\ best_for_tag[t].url = processed[i].url

\* two pages have the greatest score of a tag and the entry names the
\* earlier; for another tag a later page replaced an earlier one
C12_Witness ==
  /\ \E t \in DOMAIN best_for_tag : \E i, j \in TopOf(t) :
       i < j /\ processed[i].url # processed[j].url /\ best_for_tag[t].url = processed[i].url
  /\ \E t \in DOMAIN best_for_tag : \E i \in HitsOf(t), j \in TopOf(t) :
       i < j /\ ScoreAt(i, t) < ScoreAt(j, t)

\* ------------------------------------------------------------------------
\* The visited set
\* ------------------------------------------------------------------------
\* C13: the visited set only grows; every request of the crawl is one GET
\* for the head of the queue, a URL that was not visited and not requested
\* before and is visited afterwards; an entry whose URL is visited is
\* dropped without a request.
C13_FetchedOnce ==
  [][/\ visited \subseteq visited'
     /\ (pc = "crawl" /\ requests' # requests) =>
          /\ requests' = Append(requests, Req("GET", Head(queue).url))
          /\ Head(queue).url \notin visited
          /\ Head(queue).url \in visited'
          /\ \A i \in 1..Len(requests) : requests[i].url # Head(queue).url
     /\ (pc = "crawl" /\ queue # <<>> /\ pc' = "crawl" /\ Head(queue).url \in visited) =>
          requests' = requests /\ visited' = visited]_vars

\* a URL whose fetch failed was popped twice, at two depths, and requested
\* once
C13_Witness ==
  \E i, j \in 1..Len(dequeued) :
    /\ i < j /\ dequeued[i].url = dequeued[j].url /\ dequeued[i].depth < dequeued[j].depth
    /\ \A n \in 1..Len(processed) : processed[n].url # dequeued[i].url
    /\ Cardinality({n \in 1..Len(requests) : requests[n].url = dequeued[i].url}) = 1

\* ------------------------------------------------------------------------
\* The page cap
\* ------------------------------------------------------------------------
\* C14: the page counter never exceeds MAX_PAGES; once it equals MAX_PAGES
\* the crawl pops nothing, visits nothing and requests nothing, whatever the
\* queue holds; a fetch that fails leaves the counter as it is.
C14_PageCap ==
  [][/\ pages <= MAX_PAGES /\ pages' <= MAX_PAGES
     /\ (pc = "crawl" /\ pages = MAX_PAGES) =>
          /\ queue' = queue /\ dequeued' = dequeued /\ visited' = visited
          /\ requests' = requests
     /\ (pc = "crawl" /\ requests' # requests /\ processed' = processed) => pages' = pages]_vars

\* crawl stopped at the cap with entries left in the queue after more
\* fetches than MAX_PAGES
C14_Witness ==
  /\ pc = "reconcile" /\ idx = 1
  /\ pages = MAX_PAGES /\ queue # <<>>
  /\ Len(requests) > MAX_PAGES

\* ------------------------------------------------------------------------
\* The allowed domains
\* ------------------------------------------------------------------------
\* every URL of the frontier, every URL popped, every URL visited and every
\* URL requested so far is on an allowed domain
Confined ==
  /\ \A i \in 1..Len(queue) : OnAllowList(queue[i].url)
  /\ \A i \in 1..Len(dequeued) : OnAllowList(dequeued[i].url)
  /\ \A u \in visited : OnAllowList(u)
  /\ pc = "crawl" => \A i \in 1..Len(requests) : OnAllowList(requests[i].url)

\* C15: the seeds, every URL link discovery puts in the frontier and every
\* URL the crawl fetches are on an allowed domain; an entry popped that is
\* not on an allowed domain is dropped without a request and without being
\* added to the visited set.
C15_CrawlConfined ==
  /\ Confined
  /\ \A i \in 1..Len(dequeued) :
       ~OnAllowList(dequeued[i].url) =>
         /\ dequeued[i].url \notin visited
         /\ pc = "crawl" => \A n \in 1..Len(requests) : requests[n].url # dequeued[i].url

\* a page with a link to another host and a link to a host that only ends
\* like an allowed domain was processed: the first was not enqueued, the
\* second was fetched
C15_Witness ==
  /\ \E i \in 1..Len(processed) :
       /\ Anchor(UrlOutside) \in Range(Page1) /\ processed[i].text = TextOf(Page1)
       /\ UrlOutside \notin Range(processed[i].links)
  /\ Req("GET", UrlEvil) \in Range(requests)
  /\ \A i \in 1..Len(requests) : requests[i].url # UrlOutside

\* ------------------------------------------------------------------------
\* Iterations that process nothing
\* ------------------------------------------------------------------------
\* C16: an iteration that discards its entry only removes the head of the
\* queue; an iteration whose fetch gives nothing only removes the head of
\* the queue and adds its URL to the visited set; neither changes the page
\* counter or the table, enqueues or sleeps, and the number of sleeps
\* equals the page counter.
C16_NoEffectWhenSkipped ==
  [][/\ sleeps = pages /\ sleeps' = pages'
     /\ (pc = "crawl" /\ dequeued' # dequeued /\ requests' = requests) =>
          /\ queue' = Tail(queue)
          /\ UNCHANGED <<visited, pages, html, best_for_tag, processed, sleeps>>
     /\ (pc = "crawl" /\ requests' # requests /\ ~Truthy(html')) =>
          /\ queue' = Tail(queue)
          /\ visited' = visited \cup {Head(queue).url}
          /\ UNCHANGED <<pages, best_for_tag, processed, sleeps>>]_vars

\* the crawl discarded an entry, had a fetch fail and processed a page
C16_Witness ==
  /\ pc = "crawl"
  /\ Len(dequeued) > Len(requests)
  /\ Len(requests) > pages
  /\ pages > 0 /\ sleeps = pages

\* ------------------------------------------------------------------------
\* Pages whose fetch returns text
\* ------------------------------------------------------------------------
\* C17: whenever fetch returns text rather than None, whatever the text is,
\* the page is processed and the page counter grows by exactly one.
C17_TextIsCounted ==
  [][(pc = "crawl" /\ requests' # requests /\ html'.some) =>
       /\ pages' = pages + 1
       /\ Len(processed') = Len(processed) + 1]_vars

\* ------------------------------------------------------------------------
\* check_url_alive and score as functions
\* ------------------------------------------------------------------------
\* the URL is empty or does not start with http
Unprobed(u) == u = <<>> \/ Head(u) \notin {"https://", "http://"}

\* C18: for an empty URL or one that does not start with http the answer is
\* false and no request is issued; otherwise one HEAD is issued, a GET
\* follows only a HEAD status 405, and the answer is true exactly for a HEAD
\* status 200, 301 or 302, or a HEAD status 405 with a GET status 200; an
\* exception on either request gives false.
C18_AliveTable ==
  (result.done /\ args.fn = "check_url_alive") =>
    LET u == args.url
        h == args.head
        g == args.get
    IN  IF Unprobed(u)
        THEN ~result.alive /\ result.reqs = <<>>
        ELSE /\ result.reqs[1] = Req("HEAD", u)
             /\ Len(result.reqs) = (IF ~h.exc /\ h.status = 405 THEN 2 ELSE 1)
             /\ Len(result.reqs) = 2 => result.reqs[2] = Req("GET", u)
             /\ result.alive <=>
                  \/ ~h.exc /\ h.status \in {200, 301, 302}
                  \/ ~h.exc /\ h.status = 405 /\ ~g.exc /\ g.status = 200

\* a HEAD answered 405 and the GET that followed answered 200
C18_Witness ==
  /\ result.done /\ args.fn = "check_url_alive"
  /\ ~args.head.exc /\ args.head.status = 405
  /\ result.alive /\ Len(result.reqs) = 2

\* the priority weight of the host of a URL
WeightOf(u) ==
  LET host == Lower(netloc(u))
  IN  IF host = <<"ern.", "ddex", ".net">> THEN 3
      ELSE IF host = <<"service.", "ddex", ".net">> THEN 2
      ELSE IF host = <<"ddex", ".net">> THEN 1
      ELSE 0

\* C19: the score is 100 times the weight of the host, plus 20 if the tag
\* in lower case is part of the URL in lower case, plus 10 for each of at
\* most 5 occurrences of the tag as a word of the text; it lies in 0..370,
\* and a score recorded in the table is at least 10.
C19_ScoreFormula ==
  (result.done /\ args.fn = "score") =>
    LET occ == Cardinality({i \in 1..Len(args.text) : args.text[i] = args.tag})
        inUrl == \E i \in 1..Len(args.url) : LowerTok(args.url[i]) = LowerTok(args.tag)
    IN  /\ result.score =
             100 * WeightOf(args.url) + (IF inUrl THEN 20 ELSE 0)
               + 10 * (IF occ > 5 THEN 5 ELSE occ)
        /\ result.score \in 0..370
        /\ (args.tag \in DOMAIN best_for_tag) <=> occ >= 1
        /\ \A t \in DOMAIN best_for_tag :
             best_for_tag[t].score = result.score /\ best_for_tag[t].score >= 10

\* a score of 370 for a text with more than five occurrences of the tag,
\* recorded in the table
C19_Witness ==
  /\ result.done /\ args.fn = "score"
  /\ result.score = 370
  /\ Cardinality({i \in 1..Len(args.text) : args.text[i] = args.tag}) > 5
  /\ args.tag \in DOMAIN best_for_tag

\* ------------------------------------------------------------------------
\* Depths and shortest paths
\* ------------------------------------------------------------------------
\* the URLs with a link path of length at most n from a seed through
\* processed pages
RECURSIVE Within(_)
Within(n) ==
  IF n = 0 THEN Range(SEEDS)
  ELSE Within(n - 1) \cup
         UNION { Range(processed[i].links) :
                   i \in {j \in 1..Len(processed) : processed[j].url \in Within(n - 1)} }

\* the length of the shortest such path to u, MAX_DEPTH + 1 if there is none
\* of length at most MAX_DEPTH
Distance(u) ==
  IF u \in Within(MAX_DEPTH)
  THEN CHOOSE n \in 0..MAX_DEPTH : u \in Within(n) /\ \A m \in 0..(n - 1) : u \notin Within(m)
  ELSE MAX_DEPTH + 1

\* the entry with which a URL was popped for the first time: the one fetched
FirstPop(i) == \A j \in 1..(i - 1) : dequeued[j].url # dequeued[i].url

\* C20: the depth with which a URL is fetched is the length of the shortest
\* link path to it from a seed through processed pages, and it is the
\* smallest depth of the entries popped for that URL.
C20_ShortestDepth ==
  \A i \in 1..Len(dequeued) :
    FirstPop(i) =>
      /\ dequeued[i].depth = Distance(dequeued[i].url)
      /\ \A j \in 1..Len(dequeued) :
           dequeued[j].url = dequeued[i].url => dequeued[i].depth <= dequeued[j].depth
      /\ \A j \in 1..Len(queue) :
           queue[j].url = dequeued[i].url => dequeued[i].depth <= queue[j].depth

\* a page enqueued at two depths was processed at the smaller one, which is
\* not 0, while the deeper entry waits in the queue
C20_Witness ==
  \E i \in 1..Len(dequeued), j \in 1..Len(queue) :
    /\ FirstPop(i) /\ queue[j].url = dequeued[i].url
    /\ 0 < dequeued[i].depth /\ dequeued[i].depth < queue[j].depth
    /\ \E n \in 1..Len(processed) :
         processed[n].url = dequeued[i].url /\ processed[n].depth = dequeued[i].depth

====
